---------------------------- MODULE Spec2Model ----------------------------
(***************************************************************************)
(* Model of the asynchronous web monitor (async_poller.py, main.py).       *)
(*                                                                         *)
(* poll() creates one website_poll task per url entry and two bulk_dump    *)
(* tasks, and awaits them with asyncio.gather under asyncio.run.  The      *)
(* tasks are coroutines of one event loop: code between two awaits runs    *)
(* atomically, so every action below is the code from one suspension       *)
(* point of a task to its next one.                                        *)
(*                                                                         *)
(* Time is counted in ticks of 0.1 s (the floor of the poller's sleep is   *)
(* one tick).  Intervals and the dump interval are inputs of poll(); they  *)
(* are chosen as a few ticks.  Timers are kept relative (time remaining,   *)
(* time elapsed), and Tick advances all of them by one tick when no timer  *)
(* is due.                                                                 *)
(***************************************************************************)
EXTENDS Integers, Sequences, FiniteSets, TLC

VARIABLES
    queue,          \* queue[k]: the deque result_queue / error_queue of poll()
    ppc,            \* ppc[p]: where website_poll task p is suspended
    nfetch,         \* nfetch[p]: number of fetch_page_data calls p has started
    elapsed,        \* elapsed[p]: ticks since start_timestamp of the running fetch
    duration,       \* duration[p]: value returned by p's last fetch_page_data
    since,          \* since[p]: stopwatch, ticks since p's last fetch started
    remaining,      \* remaining[p]: ticks left of p's asyncio.sleep
    fpc,            \* fpc[k]: where bulk_dump task k is suspended
    fremaining,     \* fremaining[k]: ticks left of k's asyncio.sleep(dump_interval)
    dump_list,      \* dump_list[k]: the local list of bulk_dump k
    widx,           \* widx[k]: rows of values_deck already executed by write_to_db
    persisted,      \* persisted[k]: rows executed with the insert of stream k, in order
    late,           \* late[k]: records appended to queue k since its last drain
    opc,            \* position of poll() / asyncio.run
    session_closed, \* the aiohttp ClientSession has been closed
    parse,          \* one call of the fetch classification on a chosen input
    now             \* stopwatch: ticks since poll() created the tasks, counted
                    \* up to dump_interval

vars == <<queue, ppc, nfetch, elapsed, duration, since, remaining, fpc,
          fremaining, dump_list, widx, persisted, late, opc, session_closed,
          parse, now>>

pollerVars == <<ppc, nfetch, elapsed, duration, since, remaining>>
flusherVars == <<fpc, fremaining, dump_list, widx>>

---------------------------------------------------------------------------
(* Bounds of the model *)

\* fetches all pollers together start before the model stops them
MaxFetch == 3
\* longest fetch the model lets happen, in ticks (below the request timeout)
MaxDuration == 1
\* longest response body of the parse specification, in bytes
MaxLen == 3

(* Program constants and inputs, in ticks *)

\* the floor 0.1 of max(0.1, interval - duration)
FLOOR == 1
\* default of website_poll's and fetch_page_data's timeout parameter (4 s)
timeout == 40
\* poll()'s dump_interval argument
dump_interval == 3
\* poll()'s web_timeout argument as main.py gives it (WEB_TIMEOUT, 3 s)
web_timeout == 30

Max(a, b) == IF a >= b THEN a ELSE b
Min(a, b) == IF a <= b THEN a ELSE b

---------------------------------------------------------------------------
(* Patterns, bodies and decoding *)

\* characters of the decoded text: 'a', newline, e-acute
Chars == {97, 10, 233}
\* bytes of a response body: 'a', newline, and the two bytes of e-acute
Bytes == {97, 10, 195, 169}

None == {}
Some(x) == {x}
Get(opt) == CHOOSE x \in opt : TRUE

\* a compiled pattern is a sequence of character classes; with re.DOTALL
\* the dot matches every character, the newline included
Dot == Chars
Lit(c) == {c}

\* the url entries given to poll(): (url, interval) or (url, interval, pattern)
urls == << <<"A", 2, <<Lit(97)>> >>, <<"B", 1>> >>

Pollers == 1..Len(urls)
Kinds == {"result", "error"}

\* build_tasks: the pattern of an entry, compiled, or None
regex_of(entry) == IF Len(entry) > 2 THEN Some(entry[3]) ELSE None
\* variant in which every task is given the interval of the first entry
interval_of_first(entry) == urls[1][2]

\* build_tasks: interval=entry[1]
interval_of(entry) == entry[2]

\* poll(): the ClientTimeout the session is created with, the only place
\* web_timeout goes to
session_timeout ==
    [total |-> None, sock_connect |-> Some(web_timeout),
     sock_read |-> Some(web_timeout)]

\* build_tasks: the arguments of the website_poll task of every entry.  The
\* call names session, url, interval, regex and the two queues; timeout is
\* not among them, so website_poll runs with the default of its parameter
\* and hands that to every fetch_page_data.
polling_tasks ==
    [p \in Pollers |->
        [url |-> urls[p][1], interval |-> interval_of(urls[p]),
         regex |-> regex_of(urls[p]), timeout |-> timeout]]

\* bytes.decode('utf'): None when the bytes are not valid UTF-8
RECURSIVE decode(_)
decode(data) ==
    IF data = <<>> THEN Some(<<>>)
    ELSE IF data[1] < 128 THEN
        LET rest == decode(Tail(data))
        IN IF rest = None THEN None ELSE Some(<<data[1]>> \o Get(rest))
    ELSE IF data[1] = 195 /\ Len(data) >= 2 /\ data[2] = 169 THEN
        LET rest == decode(Tail(Tail(data)))
        IN IF rest = None THEN None ELSE Some(<<233>> \o Get(rest))
    ELSE None

\* re.Pattern.match at one position
match_at(pattern, text, i) ==
    /\ i + Len(pattern) - 1 <= Len(text)
    /\ \A j \in 1..Len(pattern) : text[i + j - 1] \in pattern[j]

\* anchored variant: the pattern is looked for at the start of the text only
search_anchored(pattern, text) == match_at(pattern, text, 1)

\* re.Pattern.search: a match starting anywhere in the text
search(pattern, text) == \E i \in 1..(Len(text) + 1) : match_at(pattern, text, i)

\* parse_web_page: "None", "True", "False", or "raise" (UnicodeDecodeError)
parse_web_page(pattern, data) ==
    IF pattern = None THEN "None"
    ELSE LET text == decode(data)
         IN IF text = None THEN "raise"
            ELSE IF search(Get(pattern), Get(text)) THEN "True" ELSE "False"

RECURSIVE SeqsUpTo(_, _)
SeqsUpTo(S, n) ==
    IF n = 0 THEN {<<>>}
    ELSE LET shorter == SeqsUpTo(S, n - 1)
         IN shorter \cup {Append(s, x) : s \in shorter, x \in S}

\* what session.get / response.read deliver: an exception or a body
RequestError == [ok |-> FALSE, body |-> <<>>]
Response(body) == [ok |-> TRUE, body |-> body]

\* the responses the pipeline's servers give: no answer, a body with a
\* match after a newline, a body that is not UTF-8
Responses == {RequestError, Response(<<10, 97>>), Response(<<195>>)}

---------------------------------------------------------------------------
(* fetch_page_data *)

ResultRecord(url, cycle, found) ==
    [url |-> url, cycle |-> cycle, regex_found |-> found]
ErrorRecord(url, cycle, err) ==
    [url |-> url, cycle |-> cycle, error |-> err]

\* variant in which the handler of a failure also appends to result_queue
fetch_page_data_both(url, cycle, regex, resp, dur) ==
    IF ~resp.ok \/ parse_web_page(regex, resp.body) = "raise"
    THEN [result |-> <<ResultRecord(url, cycle, "None")>>,
          error |-> <<ErrorRecord(url, cycle, "Error")>>,
          raised |-> FALSE, duration |-> dur]
    ELSE [result |-> <<ResultRecord(url, cycle, parse_web_page(regex, resp.body))>>,
          error |-> <<>>, raised |-> FALSE, duration |-> dur]

\* variant in which a request failure is not caught
fetch_page_data_raises(url, cycle, regex, resp, dur) ==
    IF ~resp.ok
    THEN [result |-> <<>>, error |-> <<>>, raised |-> TRUE, duration |-> dur]
    ELSE IF parse_web_page(regex, resp.body) = "raise"
    THEN [result |-> <<>>,
          error |-> <<ErrorRecord(url, cycle, "UnicodeDecodeError")>>,
          raised |-> FALSE, duration |-> dur]
    ELSE [result |-> <<ResultRecord(url, cycle, parse_web_page(regex, resp.body))>>,
          error |-> <<>>, raised |-> FALSE, duration |-> dur]

\* One call, from the response to the return: what it appends to each queue,
\* whether it raises, and the duration it returns.
fetch_page_data(url, cycle, regex, resp, dur) ==
    IF ~resp.ok
    THEN [result |-> <<>>,
          error |-> <<ErrorRecord(url, cycle, "ClientError")>>,
          raised |-> FALSE, duration |-> dur]
    ELSE IF parse_web_page(regex, resp.body) = "raise"
    THEN [result |-> <<>>,
          error |-> <<ErrorRecord(url, cycle, "UnicodeDecodeError")>>,
          raised |-> FALSE, duration |-> dur]
    ELSE [result |-> <<ResultRecord(url, cycle, parse_web_page(regex, resp.body))>>,
          error |-> <<>>, raised |-> FALSE, duration |-> dur]

\* variant of the sleep of website_poll without the floor
next_sleep_nofloor(interval, dur) == interval - dur

\* website_poll: the argument of asyncio.sleep
next_sleep(interval, dur) == Max(FLOOR, interval - dur)

---------------------------------------------------------------------------
(* bulk_dump *)

\* variant of the drain loop that stops one item early
RECURSIVE drain_short(_, _)
drain_short(q, dl) ==
    IF Len(q) <= 1 /\ dl # <<>> THEN [queue |-> q, dump_list |-> dl]
    ELSE IF q = <<>> THEN [queue |-> q, dump_list |-> dl]
    ELSE drain_short(Tail(q), Append(dl, Head(q)))

\* variant of the drain loop that reads the items and leaves them queued
drain_copy(q, dl) == [queue |-> q, dump_list |-> dl \o q]

\* while queue: dump_list.append(queue.popleft())
RECURSIVE drain(_, _)
drain(q, dl) ==
    IF q = <<>> THEN [queue |-> q, dump_list |-> dl]
    ELSE drain(Tail(q), Append(dl, Head(q)))

\* variant without the test of the queue
not_queue_never(q) == FALSE

\* variant in which the queue always looks empty
not_queue_always(q) == TRUE

\* if not queue: continue
not_queue(q) == q = <<>>

\* variant in which a failed batch is put back at the front of the queue
queue_on_error_requeue(q, batch) == batch \o q

\* the queue after write_to_db has raised in bulk_dump: nothing catches the
\* exception, the queue is not touched
queue_on_error(q, batch) == q

\* variant in which poll() gives each dumper the other insert statement
sql_of_swapped(k) == IF k = "result" THEN "error" ELSE "result"

\* poll(): the sql given to the bulk_dump task of queue k, named by the
\* stream of its table: db.insert_result_sql goes with result_queue,
\* db.insert_error_sql with error_queue
sql_of(k) == IF k = "result" THEN "result" ELSE "error"

\* variant of the row loop of write_to_db that runs from the last row down
next_row_backwards(values_deck, done) == values_deck[Len(values_deck) - done]

\* for values in values_deck: the row executed after `done` rows
next_row(values_deck, done) == values_deck[done + 1]

---------------------------------------------------------------------------
(* State after poll() has created the tasks and each task has run to its  *)
(* first await: every poller inside its first fetch, both dumpers asleep.  *)

\* variant of bulk_dump with the sleep at the end of the loop: the task is
\* due as soon as it has started
bulk_dump_start_due == [pc |-> "sleep", remaining |-> 0]

\* bulk_dump runs to its first await, the asyncio.sleep(dump_interval) at
\* the top of while True
bulk_dump_start == [pc |-> "sleep", remaining |-> dump_interval]

NoCall == [given |-> FALSE, regex |-> None, resp |-> RequestError, out |-> {}]

InitPipeline ==
    /\ queue = [k \in Kinds |-> <<>>]
    /\ ppc = [p \in Pollers |-> "fetch"]
    /\ nfetch = [p \in Pollers |-> 1]
    /\ elapsed = [p \in Pollers |-> 0]
    /\ duration = [p \in Pollers |-> 0]
    /\ since = [p \in Pollers |-> 0]
    /\ remaining = [p \in Pollers |-> 0]
    /\ fpc = [k \in Kinds |-> bulk_dump_start.pc]
    /\ fremaining = [k \in Kinds |-> bulk_dump_start.remaining]
    /\ dump_list = [k \in Kinds |-> <<>>]
    /\ widx = [k \in Kinds |-> 0]
    /\ persisted = [k \in Kinds |-> <<>>]
    /\ late = [k \in Kinds |-> <<>>]
    /\ opc = "gather"
    /\ session_closed = FALSE
    /\ now = 0

Init == InitPipeline /\ parse = NoCall

---------------------------------------------------------------------------
(* website_poll *)

RECURSIVE Sum(_, _)
Sum(f, S) == IF S = {} THEN 0
             ELSE LET x == CHOOSE y \in S : TRUE IN f[x] + Sum(f, S \ {x})

\* fetches started so far by all pollers
Started == Sum(nfetch, Pollers)

Capped(p) == Started >= MaxFetch

\* variant in which an append waits while the dumper of the queue is
\* inside write_to_db
append_waits_for_dump(pc) == pc \in {"acquire", "execute"}

\* deque.append is a plain call without an await: it never waits, whatever
\* the dumper of the queue is doing
append_waits(pc) == FALSE

\* The response resp has arrived (or the request has failed):
\* fetch_page_data runs to its return and website_poll to asyncio.sleep.
FetchReturns(p, resp) ==
    LET out == fetch_page_data(urls[p][1], nfetch[p], regex_of(urls[p]),
                               resp, elapsed[p])
    IN /\ ppc[p] = "fetch"
       /\ \A k \in Kinds : out[k] # <<>> => ~append_waits(fpc[k])
       /\ queue' = [k \in Kinds |-> queue[k] \o out[k]]
       /\ late' = [k \in Kinds |-> late[k] \o out[k]]
       /\ IF out.raised
          THEN /\ ppc' = [ppc EXCEPT ![p] = "crashed"]
               /\ UNCHANGED <<duration, remaining>>
          ELSE /\ ppc' = [ppc EXCEPT ![p] = "sleep"]
               /\ duration' = [duration EXCEPT ![p] = out.duration]
               /\ remaining' = [remaining EXCEPT ![p] =
                      next_sleep(interval_of(urls[p]), out.duration)]
       /\ elapsed' = [elapsed EXCEPT ![p] = 0]
       /\ UNCHANGED <<nfetch, since, flusherVars, persisted, opc,
                      session_closed, parse, now>>

\* what a request can come back with: a closed session fails every request
Outcomes == IF session_closed THEN {RequestError} ELSE Responses

FetchDone(p) == \E resp \in Outcomes : FetchReturns(p, resp)

\* asyncio.sleep is over: the next turn of while True starts a fetch
\* (duration is dead until the fetch returns).
StartFetch(p) ==
    /\ ppc[p] = "sleep"
    /\ remaining[p] <= 0
    /\ ~Capped(p)
    /\ ppc' = [ppc EXCEPT ![p] = "fetch"]
    /\ nfetch' = [nfetch EXCEPT ![p] = @ + 1]
    /\ duration' = [duration EXCEPT ![p] = 0]
    /\ remaining' = [remaining EXCEPT ![p] = 0]
    /\ since' = [since EXCEPT ![p] = 0]
    /\ UNCHANGED <<queue, late, elapsed, flusherVars, persisted,
                   opc, session_closed, parse, now>>

---------------------------------------------------------------------------
(* bulk_dump and write_to_db *)

\* asyncio.sleep(dump_interval) is over and the queue is empty: continue
WakeEmpty(k) ==
    /\ fpc[k] = "sleep"
    /\ fremaining[k] = 0
    /\ not_queue(queue[k])
    /\ dump_list' = [dump_list EXCEPT ![k] = <<>>]
    /\ fremaining' = [fremaining EXCEPT ![k] = dump_interval]
    /\ UNCHANGED <<queue, late, pollerVars, fpc, widx, persisted, opc,
                   session_closed, parse, now>>

\* asyncio.sleep(dump_interval) is over and the queue holds items: the drain
\* loop runs and write_to_db is called, up to its await of pool.acquire()
WakeDrain(k) ==
    /\ fpc[k] = "sleep"
    /\ fremaining[k] = 0
    /\ ~not_queue(queue[k])
    /\ LET d == drain(queue[k], <<>>)
       IN /\ queue' = [queue EXCEPT ![k] = d.queue]
          /\ dump_list' = [dump_list EXCEPT ![k] = d.dump_list]
    /\ late' = [late EXCEPT ![k] = <<>>]
    /\ fpc' = [fpc EXCEPT ![k] = "acquire"]
    /\ widx' = [widx EXCEPT ![k] = 0]
    /\ UNCHANGED <<pollerVars, fremaining, persisted, opc, session_closed,
                   parse, now>>

\* pool.acquire() and conn.cursor() return; a closing pool gives no connection
Acquire(k) ==
    /\ fpc[k] = "acquire"
    /\ opc = "gather"
    /\ fpc' = [fpc EXCEPT ![k] = "execute"]
    /\ UNCHANGED <<queue, late, pollerVars, fremaining, dump_list, widx,
                   persisted, opc, session_closed, parse, now>>

\* one cur.execute(sql, values) of the loop of write_to_db
Execute(k) ==
    /\ fpc[k] = "execute"
    /\ widx[k] < Len(dump_list[k])
    /\ persisted' = [persisted EXCEPT ![sql_of(k)] =
                        Append(@, next_row(dump_list[k], widx[k]))]
    /\ widx' = [widx EXCEPT ![k] = @ + 1]
    /\ UNCHANGED <<queue, late, pollerVars, fpc, fremaining, dump_list, opc,
                   session_closed, parse, now>>

\* write_to_db returns; bulk_dump goes back to asyncio.sleep(dump_interval)
\* (dump_list is dead until it is assigned [] after the sleep)
WriteDone(k) ==
    /\ fpc[k] = "execute"
    /\ widx[k] = Len(dump_list[k])
    /\ fpc' = [fpc EXCEPT ![k] = "sleep"]
    /\ fremaining' = [fremaining EXCEPT ![k] = dump_interval]
    /\ dump_list' = [dump_list EXCEPT ![k] = <<>>]
    /\ widx' = [widx EXCEPT ![k] = 0]
    /\ UNCHANGED <<queue, late, pollerVars, persisted, opc,
                   session_closed, parse, now>>

\* pool.acquire(), conn.cursor() or cur.execute() raises: the exception
\* leaves write_to_db and bulk_dump, the task ends with it
WriteFail(k) ==
    /\ fpc[k] \in {"acquire", "execute"}
    /\ fpc' = [fpc EXCEPT ![k] = "failed"]
    /\ queue' = [queue EXCEPT ![k] = queue_on_error(@, dump_list[k])]
    /\ UNCHANGED <<late, pollerVars, fremaining, dump_list, widx, persisted,
                   opc, session_closed, parse, now>>

---------------------------------------------------------------------------
(* poll and asyncio.run *)

\* variant in which the fetch catches the cancellation like any failure
\* (except BaseException) and the poller goes on to its sleep
cancel_swallowed(pc) ==
    IF pc = "sleep" THEN "cancelled" ELSE IF pc = "fetch" THEN "sleep" ELSE pc

\* task.cancel() on a poller: CancelledError is thrown at its await; it is
\* no Exception, so the except clause of fetch_page_data lets it through
cancel(pc) == IF pc \in {"fetch", "sleep"} THEN "cancelled" ELSE pc

TaskRaised ==
    \/ \E k \in Kinds : fpc[k] = "failed"
    \/ \E p \in Pollers : ppc[p] = "crashed"

\* asyncio.gather hands the first exception to poll(): the two async with
\* blocks are left, the session is closed and the pool starts closing
GatherRaise ==
    /\ opc = "gather"
    /\ TaskRaised
    /\ opc' = "closing"
    /\ session_closed' = TRUE
    /\ UNCHANGED <<queue, late, pollerVars, flusherVars, persisted, parse, now>>

\* pool.wait_closed() returns once no connection is in use; poll() raises
\* and asyncio.run cancels every task that is still pending
RunCancel ==
    /\ opc = "closing"
    /\ \A k \in Kinds : fpc[k] # "execute"
    /\ opc' = "done"
    /\ ppc' = [p \in Pollers |-> cancel(ppc[p])]
    /\ fpc' = [k \in Kinds |->
                 IF fpc[k] \in {"sleep", "acquire"} THEN "cancelled" ELSE fpc[k]]
    /\ UNCHANGED <<queue, late, nfetch, elapsed, duration, since, remaining,
                   fremaining, dump_list, widx, persisted, session_closed,
                   parse, now>>

---------------------------------------------------------------------------
(* Time *)

Sleeping(p) == ppc[p] = "sleep" /\ remaining[p] > 0

\* the timers of every sleeping or fetching task after one more tick
Advance ==
    /\ remaining' = [p \in Pollers |->
                       IF Sleeping(p) THEN remaining[p] - 1 ELSE remaining[p]]
    /\ elapsed' = [p \in Pollers |->
                     IF ppc[p] = "fetch" THEN elapsed[p] + 1 ELSE elapsed[p]]
    /\ fremaining' = [k \in Kinds |->
                        IF fpc[k] = "sleep" THEN fremaining[k] - 1 ELSE fremaining[k]]
    /\ since' = [p \in Pollers |->
                   IF ppc[p] = "fetch" \/ Sleeping(p) THEN since[p] + 1 ELSE since[p]]
    /\ now' = Min(now + 1, dump_interval)
    /\ UNCHANGED <<queue, late, ppc, nfetch, duration, fpc, dump_list, widx,
                   persisted, opc, session_closed, parse>>

\* one tick passes: allowed when no sleep is over, no fetch has reached the
\* longest duration and no exception is on its way through gather and poll
\* (that takes a few turns of the event loop, no time)
Tick ==
    /\ opc # "done"
    /\ ~(opc = "gather" /\ TaskRaised)
    /\ ~(opc = "closing" /\ \A k \in Kinds : fpc[k] # "execute")
    /\ \A p \in Pollers : ppc[p] = "sleep" => (remaining[p] > 0 \/ Capped(p))
    /\ \A p \in Pollers : ppc[p] = "fetch" => elapsed[p] < Min(polling_tasks[p].timeout, MaxDuration)
    /\ \A k \in Kinds : fpc[k] = "sleep" => fremaining[k] > 0
    /\ Advance

Next ==
    \/ \E p \in Pollers : FetchDone(p)
    \/ \E p \in Pollers : StartFetch(p)
    \/ \E k \in Kinds : WakeEmpty(k)
    \/ \E k \in Kinds : WakeDrain(k)
    \/ \E k \in Kinds : Acquire(k)
    \/ \E k \in Kinds : Execute(k)
    \/ \E k \in Kinds : WriteDone(k)
    \/ \E k \in Kinds : WriteFail(k)
    \/ GatherRaise
    \/ RunCancel
    \/ Tick

Spec == Init /\ [][Next]_vars

\* The event loop runs every task that is ready, and a call on the database
\* returns or raises.
Fairness ==
    /\ WF_vars(GatherRaise)
    /\ WF_vars(RunCancel)
    /\ \A k \in Kinds : WF_vars(Execute(k)) /\ WF_vars(WriteDone(k))

FairSpec == Spec /\ Fairness

---------------------------------------------------------------------------
(* The pipeline without an end.  website_poll and bulk_dump are while True *)
(* loops; here no cap stops the pollers.  To keep the state finite the     *)
(* fetches are not counted, the database keeps the rows of one             *)
(* write_to_db call only, a write_to_db call takes less than a tick, and   *)
(* a poller whose sleep is over waits while MaxFetch records and fetches   *)
(* are in the pipeline.                                                    *)

\* records held by the queues and the batches of the dumpers, and fetches
\* under way
InFlight ==
    Len(queue["result"]) + Len(queue["error"])
        + Len(dump_list["result"]) + Len(dump_list["error"])
        + Cardinality({p \in Pollers : ppc[p] = "fetch"})

Room == InFlight < MaxFetch

\* while True of website_poll: the next fetch (the fetches are not counted
\* here, every record carries cycle number 1)
StartFetchAgain(p) ==
    /\ ppc[p] = "sleep"
    /\ remaining[p] <= 0
    /\ Room
    /\ ppc' = [ppc EXCEPT ![p] = "fetch"]
    /\ nfetch' = [nfetch EXCEPT ![p] = 1]
    /\ duration' = [duration EXCEPT ![p] = 0]
    /\ remaining' = [remaining EXCEPT ![p] = 0]
    /\ since' = [since EXCEPT ![p] = 0]
    /\ UNCHANGED <<queue, late, elapsed, flusherVars, persisted,
                   opc, session_closed, parse, now>>

\* write_to_db returns and bulk_dump goes back to its sleep; the rows of
\* the call are forgotten
WriteDoneForget(k) ==
    /\ fpc[k] = "execute"
    /\ widx[k] = Len(dump_list[k])
    /\ fpc' = [fpc EXCEPT ![k] = "sleep"]
    /\ fremaining' = [fremaining EXCEPT ![k] = dump_interval]
    /\ dump_list' = [dump_list EXCEPT ![k] = <<>>]
    /\ widx' = [widx EXCEPT ![k] = 0]
    /\ persisted' = [persisted EXCEPT ![k] = <<>>]
    /\ UNCHANGED <<queue, late, pollerVars, opc, session_closed, parse, now>>

\* one tick passes, with no write_to_db call under way, no sleep over
\* (but for a poller that waits for room) and no fetch at its longest
TickLive ==
    /\ opc = "gather"
    /\ ~TaskRaised
    /\ \A k \in Kinds : fpc[k] = "sleep" /\ fremaining[k] > 0
    /\ \A p \in Pollers : ppc[p] = "sleep" => (remaining[p] > 0 \/ ~Room)
    /\ \A p \in Pollers :
          ppc[p] = "fetch" => elapsed[p] < Min(polling_tasks[p].timeout, MaxDuration)
    /\ Advance

LiveNext ==
    \/ \E p \in Pollers : FetchDone(p)
    \/ \E p \in Pollers : StartFetchAgain(p)
    \/ \E k \in Kinds : WakeEmpty(k)
    \/ \E k \in Kinds : WakeDrain(k)
    \/ \E k \in Kinds : Acquire(k)
    \/ \E k \in Kinds : Execute(k)
    \/ \E k \in Kinds : WriteDoneForget(k)
    \/ \E k \in Kinds : WriteFail(k)
    \/ GatherRaise
    \/ RunCancel
    \/ TickLive

\* The event loop runs every task that is ready, a request returns or fails
\* within its timeout, a call on the database returns or raises, and time
\* goes on.
LiveFairness ==
    /\ \A p \in Pollers : WF_vars(FetchDone(p)) /\ WF_vars(StartFetchAgain(p))
    /\ \A k \in Kinds : /\ WF_vars(WakeEmpty(k)) /\ WF_vars(WakeDrain(k))
                        /\ WF_vars(Acquire(k)) /\ WF_vars(Execute(k))
                        /\ WF_vars(WriteDoneForget(k))
    /\ WF_vars(GatherRaise)
    /\ WF_vars(RunCancel)
    /\ WF_vars(TickLive)

LiveSpec == Init /\ [][LiveNext]_vars /\ LiveFairness

---------------------------------------------------------------------------
(* One call of the fetch on a chosen pattern and response *)

Patterns == {None, Some(<<>>), Some(<<Lit(97)>>), Some(<<Dot>>),
             Some(<<Lit(97), Dot>>), Some(<<Lit(233)>>),
             Some(<<Lit(10), Lit(97)>>)}

Bodies == SeqsUpTo(Bytes, MaxLen)

InitParse ==
    /\ InitPipeline
    /\ parse \in {[given |-> TRUE, regex |-> r, resp |-> x, out |-> {}] :
                    r \in Patterns,
                    x \in {RequestError} \cup {Response(b) : b \in Bodies}}

\* fetch_page_data from the response to its return
Classify ==
    /\ parse.given
    /\ parse.out = {}
    /\ parse' = [parse EXCEPT !.out =
                    {fetch_page_data("A", 1, parse.regex, parse.resp, 0)}]
    /\ UNCHANGED <<queue, late, pollerVars, flusherVars, persisted, opc,
                   session_closed, now>>

SpecParse == InitParse /\ [][Classify]_vars

---------------------------------------------------------------------------
(* Properties *)

Range(seq) == {seq[i] : i \in 1..Len(seq)}

IsPrefix(a, b) == Len(a) <= Len(b) /\ SubSeq(b, 1, Len(a)) = a

\* C1: every completed fetch_page_data appends exactly one record, the
\* record of this fetch, to exactly one of the two queues: a result record
\* to result_queue with error_queue unchanged, or an error record to
\* error_queue with result_queue unchanged; never to both, never to none.
C1_OneRecordOneQueue ==
    [][\A p \in Pollers : FetchDone(p) =>
          \/ /\ Len(queue'["result"]) = Len(queue["result"]) + 1
             /\ IsPrefix(queue["result"], queue'["result"])
             /\ queue'["error"] = queue["error"]
             /\ LET r == queue'["result"][Len(queue'["result"])]
                IN /\ r.url = urls[p][1] /\ r.cycle = nfetch[p]
                   /\ "regex_found" \in DOMAIN r
          \/ /\ Len(queue'["error"]) = Len(queue["error"]) + 1
             /\ IsPrefix(queue["error"], queue'["error"])
             /\ queue'["result"] = queue["result"]
             /\ LET r == queue'["error"][Len(queue'["error"])]
                IN /\ r.url = urls[p][1] /\ r.cycle = nfetch[p]
                   /\ "error" \in DOMAIN r]_vars

\* C1 witness: fetches have completed both ways, a result record and an
\* error record are queued.
C1_Witness ==
    /\ queue["result"] # <<>>
    /\ queue["error"] # <<>>
    /\ \E r \in Range(queue["error"]) : r.error = "UnicodeDecodeError"

\* C2: when bulk_dump wakes on a non-empty queue, the batch it hands to
\* write_to_db is exactly the queue's content at the start of the drain, in
\* enqueue order, and the queue is left empty; the drain is one step, no
\* append falls inside it.
C2_DrainTakesAll ==
    [][\A k \in Kinds : WakeDrain(k) =>
          /\ dump_list'[k] = queue[k]
          /\ queue'[k] = <<>>
          /\ \A i, j \in 1..Len(dump_list'[k]) :
                i # j => dump_list'[k][i] # dump_list'[k][j]
          /\ \A other \in Kinds \ {k} : queue'[other] = queue[other]]_vars

\* C2 witness: a batch of several items has been drained and handed to
\* write_to_db.
C2_Witness ==
    \E k \in Kinds : fpc[k] = "acquire" /\ Len(dump_list[k]) >= 2 /\ queue[k] = <<>>

\* C3 as stated: when a flush cycle has finished (write_to_db has returned),
\* the queue is empty, whatever the pollers appended during the write.
C3_EmptyAfterCycle ==
    [][\A k \in Kinds : WriteDone(k) => queue'[k] = <<>>]_vars

\* C3 amended: the drain leaves the queue empty, and when the flush cycle
\* has finished the queue holds exactly the records appended since the
\* drain, in order, and none of the drained batch.
C3_OnlyLateRecordsAfterCycle ==
    [][\A k \in Kinds :
          /\ WakeDrain(k) => queue'[k] = <<>>
          /\ WriteDone(k) =>
                /\ queue'[k] = late[k]
                /\ Range(queue'[k]) \cap Range(dump_list[k]) = {}]_vars

\* C3 witness: a write is in progress and a record has been appended to its
\* queue since the drain.
C3_Witness ==
    \E k \in Kinds :
        /\ fpc[k] = "execute"
        /\ widx[k] = Len(dump_list[k])
        /\ dump_list[k] # <<>>
        /\ queue[k] # <<>>

\* C4: a flush cycle that finds the queue empty calls write_to_db not at
\* all (no call is ever made with an empty batch), raises nothing and goes
\* back to a full sleep, as often as it happens.
C4_EmptyCycleNoCall ==
    /\ [](\A k \in Kinds : fpc[k] \in {"acquire", "execute"} => dump_list[k] # <<>>)
    /\ [][\A k \in Kinds :
            (fpc[k] = "sleep" /\ fremaining[k] = 0 /\ queue[k] = <<>>
                /\ fpc'[k] # "cancelled"
                /\ <<fpc[k], fremaining[k]>>' # <<fpc[k], fremaining[k]>>)
            => /\ fpc'[k] = "sleep"
               /\ fremaining'[k] = dump_interval
               /\ persisted' = persisted
               /\ queue' = queue]_vars

\* C4 witness: the error dumper has slept a full interval, woken on an empty
\* queue and gone back to sleep without anything written (both dumpers are
\* due at the same time, and the result dumper has woken and drained).
C4_Witness ==
    /\ fpc["result"] = "acquire"
    /\ fpc["error"] = "sleep"
    /\ fremaining["error"] = dump_interval
    /\ queue["error"] = <<>>
    /\ persisted["error"] = <<>>
    /\ opc = "gather"

\* C5: a failed fetch does not end the poller: fetch_page_data returns its
\* duration, website_poll goes to its sleep (and from there to the next
\* fetch); no poller ever ends with an exception, and a poller stops only by
\* the cancellation that ends the whole group.
C5_FailureKeepsPolling ==
    /\ [](\A p \in Pollers :
            /\ ppc[p] # "crashed"
            /\ ppc[p] = "cancelled" => opc = "done")
    /\ [][\A p \in Pollers :
            (FetchDone(p) /\ queue'["error"] # queue["error"])
            => /\ ppc'[p] = "sleep"
               /\ duration'[p] = elapsed[p]
               /\ remaining'[p] >= FLOOR]_vars

\* C5 witness: a poller whose fetches have all failed is in its sleep after
\* the second failure.
C5_Witness ==
    \E p \in Pollers :
        /\ ppc[p] = "sleep"
        /\ nfetch[p] = 2
        /\ \A c \in 1..2 : \E r \in Range(queue["error"]) :
              r.url = urls[p][1] /\ r.cycle = c

AllStopped ==
    /\ opc = "done"
    /\ \A p \in Pollers : ppc[p] \in {"cancelled", "crashed"}
    /\ \A k \in Kinds : fpc[k] \in {"failed", "cancelled"}

\* C6: when the persistence call of a dumper raises, the exception leaves
\* the dumper and poll, and the whole group ends: eventually every poller
\* and the other dumper have stopped, and from then on no fetch is started,
\* no record is queued and nothing more reaches the database.
C6_FailureStopsGroup ==
    /\ (\E k \in Kinds : fpc[k] = "failed") ~> AllStopped
    /\ [][AllStopped =>
            /\ AllStopped'
            /\ nfetch' = nfetch
            /\ queue' = queue
            /\ dump_list' = dump_list
            /\ persisted' = persisted]_vars

\* C6 witness: one dumper has failed and the group has ended, with a poller
\* and the other dumper cancelled.
C6_Witness ==
    /\ AllStopped
    /\ \E p \in Pollers : ppc[p] = "cancelled"
    /\ \E k \in Kinds : fpc[k] = "failed"
    /\ \E k \in Kinds : fpc[k] = "cancelled"

Occurrences(seq, x) == Cardinality({i \in 1..Len(seq) : seq[i] = x})

\* C7: after write_to_db has raised, the batch is lost: none of its records
\* is back in a queue, and none of them reaches the database again (a row
\* executed before the failure is there once, the others never).
C7_FailedBatchLost ==
    \A k \in Kinds : fpc[k] = "failed" =>
        \A i \in 1..Len(dump_list[k]) :
            LET r == dump_list[k][i]
            IN /\ \A q \in Kinds : r \notin Range(queue[q])
               /\ Occurrences(persisted[k], r) = (IF i <= widx[k] THEN 1 ELSE 0)
               /\ \A q \in Kinds \ {k} :
                     r \notin Range(persisted[q]) \cup Range(dump_list[q])

\* C7 witness: a write has failed after its first row with rows left, and
\* the group has ended.
C7_Witness ==
    \E k \in Kinds :
        /\ fpc[k] = "failed"
        /\ Len(dump_list[k]) >= 2
        /\ widx[k] = 1
        /\ opc = "done"

\* C8: after every fetch, successful or failed, the poller sleeps exactly
\* max(0.1, interval - duration) with the duration the fetch returned, never
\* less than 0.1 s; so the time from one fetch start to the next is interval
\* when duration <= interval - 0.1 and duration + 0.1 otherwise.
C8_SleepFormula ==
    [][\A p \in Pollers :
          LET interval == urls[p][2]
          IN /\ FetchDone(p) =>
                  /\ duration'[p] = elapsed[p]
                  /\ remaining'[p] >= FLOOR
                  /\ remaining'[p] = (IF interval - duration'[p] >= FLOOR
                                      THEN interval - duration'[p] ELSE FLOOR)
             /\ StartFetch(p) =>
                  since[p] = (IF duration[p] <= interval - FLOOR
                              THEN interval ELSE duration[p] + FLOOR)]_vars

\* C8 witness: a fetch took at least the interval, and the sleep of one
\* floor after it is over.
C8_Witness ==
    \E p \in Pollers :
        /\ ppc[p] = "sleep"
        /\ duration[p] >= urls[p][2]
        /\ remaining[p] = 0
        /\ since[p] = duration[p] + FLOOR

\* the rows of stream k in the order they reach or will reach the database
Pending(k) ==
    IF fpc[k] \in {"acquire", "execute"}
    THEN SubSeq(dump_list[k], widx[k] + 1, Len(dump_list[k]))
    ELSE <<>>
Stream(k) == persisted[k] \o Pending(k) \o queue[k]

\* C9: the records of one poller on one stream keep their cycle order from
\* the append through the drain to the database: a record appended earlier
\* is executed earlier (in the same batch or an earlier one).
C9_PollerOrderKept ==
    \A k \in Kinds : \A i, j \in 1..Len(Stream(k)) :
        (i < j /\ Stream(k)[i].url = Stream(k)[j].url)
            => Stream(k)[i].cycle < Stream(k)[j].cycle

\* C9 witness: two records of one poller have reached the database on one
\* stream.
C9_Witness ==
    \E k \in Kinds : \E i, j \in 1..Len(persisted[k]) :
        i < j /\ persisted[k][i].url = persisted[k][j].url

\* UTF-8 encoding of a text over Chars
RECURSIVE encode(_)
encode(text) ==
    IF text = <<>> THEN <<>>
    ELSE (IF text[1] = 233 THEN <<195, 169>> ELSE <<text[1]>>) \o encode(Tail(text))

Decodable(body) == \E t \in SeqsUpTo(Chars, Len(body)) : encode(t) = body
TextOf(body) == CHOOSE t \in SeqsUpTo(Chars, Len(body)) : encode(t) = body

MatchesSomewhere(pattern, text) ==
    \E a \in 0..Len(text) :
        /\ a + Len(pattern) <= Len(text)
        /\ \A j \in 1..Len(pattern) : text[a + j] \in pattern[j]

\* C10: for a response that arrived: with a pattern and a body that is
\* UTF-8, one result record with regex_found true exactly if the pattern
\* matches somewhere in the text; without a pattern, one result record with
\* regex_found None, decodable body or not; with a pattern and a body that is
\* not UTF-8, one error record and no result record.
C10_PatternOutcome ==
    (parse.out # {} /\ parse.resp.ok) =>
        LET o == Get(parse.out)
            body == parse.resp.body
        IN /\ ~o.raised
           /\ IF parse.regex = None
              THEN /\ o.error = <<>> /\ Len(o.result) = 1
                   /\ o.result[1].regex_found = "None"
              ELSE IF Decodable(body)
              THEN /\ o.error = <<>> /\ Len(o.result) = 1
                   /\ o.result[1].regex_found =
                        (IF MatchesSomewhere(Get(parse.regex), TextOf(body))
                         THEN "True" ELSE "False")
              ELSE /\ o.result = <<>> /\ Len(o.error) = 1

\* C10 witness: a body whose match is not at its start has been classified
\* as a result with regex_found true.
C10_Witness ==
    /\ parse.out # {}
    /\ parse.regex = Some(<<Lit(97)>>)
    /\ parse.resp = Response(<<195, 169, 97>>)
    /\ Get(parse.out).result[1].regex_found = "True"

\* C11 as stated: every running fetch of a poller was called with the
\* web_timeout given to poll() as its timeout argument.
C11_FetchTimeoutIsWebTimeout ==
    \A p \in Pollers :
        ppc[p] = "fetch" => polling_tasks[p].timeout = web_timeout

\* what the code does instead: every fetch gets the default of the timeout
\* parameter, and web_timeout bounds only the socket operations of the
\* session
C11_FetchTimeoutIsDefault ==
    /\ \A p \in Pollers : ppc[p] = "fetch" => polling_tasks[p].timeout = timeout
    /\ session_timeout.sock_read = Some(web_timeout)
    /\ timeout # web_timeout

\* C12: a poller has no terminal state.  In a run in which no call on the
\* database fails, every poller is always in its fetch or in its sleep, is
\* in each of the two again and again (it starts fetches without end), and
\* poll() stays in its gather for ever.
C12_PollersNeverEnd ==
    ([](\A k \in Kinds : fpc[k] # "failed")) =>
        /\ [](\A p \in Pollers : ppc[p] \in {"fetch", "sleep"})
        /\ \A p \in Pollers : ([]<>(ppc[p] = "fetch")) /\ ([]<>(ppc[p] = "sleep"))
        /\ [](opc = "gather")

\* C12 witness: a poller is in a fetch again after a fetch of its own that
\* failed, whose record is still queued.
C12_Witness ==
    \E p \in Pollers :
        /\ ppc[p] = "fetch"
        /\ \E r \in Range(queue["error"]) : r.url = urls[p][1]

\* the part of the state that is poller b's own
Own(b) == <<ppc[b], nfetch[b], elapsed[b], duration[b], since[b], remaining[b]>>

\* C13: the pollers do not touch each other.  A step of poller a (the end
\* of a fetch, failed or not, with its append and the start of its sleep;
\* the start of its next fetch) leaves everything of poller b as it was;
\* the sleep b computes and the time between two of b's fetch starts are
\* given by b's own interval and b's own duration, whatever a does; and no
\* poller is ever stopped but by the failure of a database call.
C13_PollersIndependent ==
    /\ [](\A b \in Pollers :
            ppc[b] \in {"fetch", "sleep"} \/ \E k \in Kinds : fpc[k] = "failed")
    /\ [][\A a \in Pollers : \A b \in Pollers \ {a} :
            /\ (FetchDone(a) \/ StartFetch(a)) => Own(b)' = Own(b)
            /\ FetchDone(b) =>
                  remaining'[b] = Max(FLOOR, urls[b][2] - elapsed[b])
            /\ StartFetch(b) =>
                  since[b] = Max(urls[b][2], duration[b] + FLOOR)]_vars

\* C13 witness: every fetch of one poller has failed, two of them, and the
\* other poller is in the sleep it computed from its own fetch.
C13_Witness ==
    \E a \in Pollers : \E b \in Pollers \ {a} :
        /\ nfetch[a] = 2 /\ ppc[a] = "sleep"
        /\ \A c \in 1..2 : \E r \in Range(queue["error"]) :
              r.url = urls[a][1] /\ r.cycle = c
        /\ ppc[b] = "sleep"
        /\ remaining[b] = Max(FLOOR, urls[b][2] - duration[b])

\* C14: the dumpers never hold up a poller.  Whatever the dumpers are doing,
\* a fetch that is under way can return with each outcome and append its
\* record.  A record appended while the dumper of its queue is inside
\* write_to_db is added to the queue and not to the batch of that call; the
\* steps of write_to_db leave it in the queue; and the next drain of the
\* queue takes everything appended since the last one, this record too.
C14_AppendNeverBlocked ==
    /\ [](\A p \in Pollers : ppc[p] = "fetch" =>
            \A resp \in Outcomes : ENABLED FetchReturns(p, resp))
    /\ [][\A k \in Kinds :
            /\ ((\E p \in Pollers : FetchDone(p))
                    /\ fpc[k] \in {"acquire", "execute"}) =>
                  /\ dump_list'[k] = dump_list[k]
                  /\ widx'[k] = widx[k]
                  /\ fpc'[k] = fpc[k]
                  /\ IsPrefix(queue[k], queue'[k])
                  /\ Range(queue'[k]) \cap Range(dump_list[k]) = {}
            /\ (Acquire(k) \/ Execute(k) \/ WriteDone(k)) => queue'[k] = queue[k]
            /\ WakeDrain(k) =>
                  /\ late[k] # <<>>
                  /\ dump_list'[k] = late[k]]_vars

\* C14 witness: rows of a batch are still to be executed, and a record has
\* been appended to the queue of that dumper since the drain.
C14_Witness ==
    \E k \in Kinds :
        /\ fpc[k] = "execute"
        /\ widx[k] < Len(dump_list[k])
        /\ late[k] # <<>>
        /\ queue[k] = late[k]

\* C15: in a run in which no call on the database fails, a queue that holds
\* records is drained, and a drained batch is executed to its last row: the
\* drain takes every record of the queue, in order, and write_to_db passes
\* every row of the batch to the database, in order.  So every record that
\* was appended is passed to the database by the dumper of its queue.
C15_EveryRecordPersisted ==
    /\ [][\A k \in Kinds :
            /\ queue'[k] # queue[k] =>
                  \/ IsPrefix(queue[k], queue'[k])
                  \/ WakeDrain(k) /\ dump_list'[k] = queue[k]
            /\ Execute(k) =>
                  persisted'[k] = SubSeq(dump_list[k], 1, widx[k] + 1)]_vars
    /\ ([](\A k \in Kinds : fpc[k] # "failed")) =>
          \A k \in Kinds :
             /\ (queue[k] # <<>>) ~> (fpc[k] = "acquire")
             /\ (fpc[k] = "acquire") ~>
                   (fpc[k] = "execute" /\ persisted[k] = dump_list[k])

\* C15 witness: a batch with records of both pollers has been executed to
\* its last row while the pollers go on.
C15_Witness ==
    \E k \in Kinds :
        /\ fpc[k] = "execute"
        /\ persisted[k] = dump_list[k]
        /\ \A p \in Pollers : \E r \in Range(persisted[k]) : r.url = urls[p][1]
        /\ \E p \in Pollers : ppc[p] = "fetch"

\* the stream a record belongs to by its fields
KindOf(r) == IF "error" \in DOMAIN r THEN "error" ELSE "result"

DumperStep(k) ==
    \/ WakeEmpty(k) \/ WakeDrain(k) \/ Acquire(k)
    \/ Execute(k) \/ WriteDone(k) \/ WriteFail(k)

\* C16: there is one poller task per entry of urls, with the url of its
\* entry, and one dumper per queue.  A step of a dumper removes records only
\* from its own queue and executes rows only with its own insert; it leaves
\* the other queue, the other batch and the rows of the other insert alone.
\* Result records are only ever in the result queue, batch and rows, error
\* records only in the error ones.
C16_DumpersBoundToQueues ==
    /\ [](/\ DOMAIN ppc = 1..Len(urls)
          /\ \A p \in Pollers : polling_tasks[p].url = urls[p][1]
          /\ DOMAIN fpc = {"result", "error"}
          /\ \A k \in Kinds :
                \A r \in Range(queue[k]) \cup Range(dump_list[k])
                                         \cup Range(persisted[k]) :
                    KindOf(r) = k)
    /\ [][\A k \in Kinds : DumperStep(k) =>
            /\ queue'[k] = queue[k] \/ (queue'[k] = <<>> /\ dump_list'[k] = queue[k])
            /\ IsPrefix(persisted[k], persisted'[k])
            /\ Range(persisted'[k]) \subseteq Range(persisted[k]) \cup Range(dump_list[k])
            /\ \A o \in Kinds \ {k} :
                  /\ queue'[o] = queue[o]
                  /\ dump_list'[o] = dump_list[o]
                  /\ persisted'[o] = persisted[o]
                  /\ fpc'[o] = fpc[o]]_vars

\* C16 witness: each dumper has executed a row with its own insert, and
\* one of them is in the middle of a batch.
C16_Witness ==
    /\ persisted["result"] # <<>>
    /\ persisted["error"] # <<>>
    /\ \E k \in Kinds : fpc[k] = "execute" /\ widx[k] > 0

\* rows of the batch of dumper k not executed (yet, or never after a failure)
Unexecuted(k) == SubSeq(dump_list[k], widx[k] + 1, Len(dump_list[k]))

\* the records the drains of queue k have removed so far
Drained(k) == persisted[k] \o Unexecuted(k)

\* every place a record can be in
Places ==
    queue["result"] \o queue["error"] \o Drained("result") \o Drained("error")

\* fetches of poller p that have returned (known while p is not cancelled)
Completed(p) == IF ppc[p] = "fetch" THEN nfetch[p] - 1 ELSE nfetch[p]

\* C17: records are conserved.  The records in the two queues and those the
\* drains have removed are, one for one, the fetches that have returned:
\* their number grows by one with every return of a fetch and with no other
\* step, no record is in two places or twice in one, and so no record is
\* executed on the database twice.
C17_Conservation ==
    /\ [](\A i, j \in 1..Len(Places) : i # j => Places[i] # Places[j])
    /\ [](\A k \in Kinds : \A r \in Range(persisted[k]) :
              Occurrences(persisted["result"] \o persisted["error"], r) = 1)
    /\ []((\A p \in Pollers : ppc[p] # "cancelled") =>
            /\ Len(Places) = Sum([p \in Pollers |-> Completed(p)], Pollers)
            /\ {<<r.url, r.cycle>> : r \in Range(Places)}
                  = {<<urls[x[1]][1], x[2]>> :
                        x \in {y \in Pollers \X (1..MaxFetch) :
                                  y[2] <= Completed(y[1])}})
    /\ [][Len(Places') =
             Len(Places) + (IF \E p \in Pollers : FetchDone(p) THEN 1 ELSE 0)]_vars

\* C17 witness: records of returned fetches are in a queue, in a batch
\* under way and among the executed rows.
C17_Witness ==
    /\ \E k \in Kinds : queue[k] # <<>>
    /\ \E k \in Kinds : fpc[k] = "execute" /\ Unexecuted(k) # <<>>
    /\ \E k \in Kinds : persisted[k] # <<>>
    /\ \A p \in Pollers : ppc[p] # "cancelled"

\* C18: a dumper has one batch at a time, and a full sleep before each.
\* Nothing is drained or passed to the database before dump_interval has
\* passed since the start.  A batch exists only from its drain to the end
\* of its write_to_db call; a drain starts from a sleep that has run down
\* with no batch left; a dumper enters its sleep only when write_to_db has
\* returned; every sleep starts at the full dump_interval and runs down by
\* one with each tick of time only.  So two drains of one queue are at
\* least dump_interval apart, plus the time the call in between has taken.
C18_OneBatchFullSleep ==
    /\ [](now < dump_interval =>
            \A k \in Kinds :
                fpc[k] = "sleep" /\ dump_list[k] = <<>> /\ persisted[k] = <<>>)
    /\ [](\A k \in Kinds : fpc[k] = "sleep" => dump_list[k] = <<>> /\ widx[k] = 0)
    /\ [][\A k \in Kinds :
            /\ WakeDrain(k) =>
                  /\ fpc[k] = "sleep" /\ fremaining[k] = 0
                  /\ fpc'[k] = "acquire"
            /\ (dump_list'[k] # dump_list[k] /\ dump_list'[k] # <<>>) => WakeDrain(k)
            /\ (fpc[k] # "sleep" /\ fpc'[k] = "sleep") =>
                  /\ WriteDone(k)
                  /\ widx[k] = Len(dump_list[k])
            /\ fremaining'[k] > fremaining[k] =>
                  /\ fremaining'[k] = dump_interval
                  /\ WriteDone(k) \/ WakeEmpty(k)
            /\ fremaining'[k] < fremaining[k] =>
                  /\ fremaining'[k] = fremaining[k] - 1
                  /\ Tick]_vars

\* C18 witness: a dumper has drained its second batch, after the rows of
\* its first one were executed and a second full sleep.
C18_Witness ==
    \E k \in Kinds :
        /\ fpc[k] = "acquire"
        /\ persisted[k] # <<>>
        /\ fremaining[k] = 0
        /\ now = dump_interval

=============================================================================
